---- MODULE Spec2Model ----
(***************************************************************************)
(* Model of Ttyh::Versions::VersionsManager (versionsmanager.cpp): the     *)
(* prefix discovery flow, the per-version index fetch flow, the in-memory  *)
(* catalog and the files both flows write.                                 *)
(*                                                                         *)
(* Version identifiers are the integers 1..MaxVersion; k stands for the    *)
(* k-th identifier in ascending QString order, so that std::greater on the *)
(* identifiers is > on the integers.  0 stands for the empty QString.      *)
(***************************************************************************)
EXTENDS Integers, Sequences, FiniteSets, TLC

VARIABLES
    fetchingPrefixes,        \* bool VersionsManager::fetchingPrefixes
    fetchingVersionIndexes,  \* bool VersionsManager::fetchingVersionIndexes
    prefixFetchQueue,        \* QQueue<QString> prefixFetchQueue
    index,                   \* PrefixesIndex index (index.prefixes: id -> about)
    prefixes,                \* QHash<QString, Prefix> prefixes (the catalog)
    requests,                \* replies of nam->get() that have not finished yet
    indexFile,               \* <versionsPath>/prefixes.json
    versionFiles,            \* <versionsPath>/<prefix>/<id>/{<id>.json,data.json}
    assetsFiles,             \* <dataPath>/assets/indexes/<assets>.json
    started,                 \* accepted starts of each flow, by flow type
    signalled,               \* number of outcome signals emitted, by flow type
    flow,                    \* what the running flow of each type has done so far
    emitted,                 \* the outcome signal the last step emitted, if any
    event,                   \* the call or handler that ran last, and its input
    crashed                  \* the process died (only in SpecCrash)

vars == <<fetchingPrefixes, fetchingVersionIndexes, prefixFetchQueue, index,
          prefixes, requests, indexFile, versionFiles, assetsFiles, started,
          signalled, emitted, flow, event, crashed>>

\* What a rejected start must leave alone.
programState == <<fetchingPrefixes, fetchingVersionIndexes, prefixFetchQueue,
                  index, prefixes, requests, indexFile, versionFiles,
                  assetsFiles, signalled>>

----------------------------------------------------------------------------
(* Bounds *)

MaxVersion == 2      \* version identifiers 1..MaxVersion
MaxRemoteLen == 2    \* longest versions list of a remote versions.json
MaxFlows == 2        \* accepted starts of flows, both types together

----------------------------------------------------------------------------
(* Values *)

EmptyId == 0

PrefixIds == {"a", "b"}
LocalAbout == "old"
RemoteAbout == "new"
VersionIds == 1..MaxVersion
FullVersionIds == PrefixIds \X VersionIds
FetchTargets == {"a"} \X VersionIds     \* arguments of fetchVersionIndexes

EmptyMap == [k \in {} |-> "old"]

Range(s) == {s[i] : i \in 1..Len(s)}

\* every sequence without repetition that lists exactly the elements of S
Orders(S) == {s \in [1..Cardinality(S) -> S] : Range(s) = S}

SeqsUpTo(S, n) == UNION {[1..k -> S] : k \in 0..n}

\* QMap/QHash operator[]= : insert or overwrite
Put(m, k, v) == [x \in (DOMAIN m) \cup {k} |-> IF x = k THEN v ELSE m[x]]

----------------------------------------------------------------------------
(* std::sort(begin, end, std::greater<QString>()) *)

RECURSIVE InsertDesc(_, _)
InsertDesc(s, x) ==
    IF s = <<>> THEN <<x>>
    ELSE IF x > Head(s) THEN <<x>> \o s
    ELSE <<Head(s)>> \o InsertDesc(Tail(s), x)

RECURSIVE SortDesc(_)
SortDesc(s) == IF s = <<>> THEN <<>> ELSE InsertDesc(SortDesc(Tail(s)), Head(s))

IsSortedDesc(s) == \A i \in 1..(Len(s) - 1) : s[i] >= s[i + 1]

\* the only descending list without repetition of the elements of S
RECURSIVE DescOf(_)
DescOf(S) ==
    IF S = {} THEN <<>>
    ELSE LET m == CHOOSE x \in S : \A y \in S : x >= y
         IN <<m>> \o DescOf(S \ {m})

----------------------------------------------------------------------------
(* Files *)

NoFile == [kind |-> "none"]
Truncated == [kind |-> "truncated"]
Complete(bytes) == [kind |-> "complete", bytes |-> bytes]

\* QFile::open(WriteOnly) either fails, or truncates the file; QFile::write
\* then either stores all the bytes or fails and leaves the file short.
OpenOutcomes == {"opened", "openFailed"}
WriteOutcomes == {"written", "writeFailed"}

WriteFile(old, bytes, o, w) ==
    IF o = "openFailed" THEN old
    ELSE IF w = "written" THEN Complete(bytes)
    ELSE Truncated

----------------------------------------------------------------------------
(* Remote payloads *)

\* prefixes.json: a JSON object id -> {about}; anything that is not a JSON
\* object parses to the empty object.
\* The remote descriptions are all RemoteAbout, the ones of the store the
\* process starts with LocalAbout.
RemoteIndexes == {[id \in D |-> RemoteAbout] : D \in SUBSET PrefixIds}
PrefixesPayloads == [json : {"object"}, prefixes : RemoteIndexes]
                        \cup {[json |-> "malformed", prefixes |-> EmptyMap]}

PrefixesIndex(payload) == payload.prefixes

\* <prefix>/versions/versions.json
\* "latest" names the first version of the list, or is missing
VersionsPayloads ==
    UNION {{[latest |-> l, versions |-> vs] :
                l \in {EmptyId} \cup {vs[i] : i \in {1} \cap DOMAIN vs}} :
           vs \in SeqsUpTo(VersionIds, MaxRemoteLen)}

PrefixVersionsIndex(payload) == payload

\* Prefix(id, about)
Prefix(id, about) == [about |-> about, versions |-> <<>>, latestVersionId |-> EmptyId]

\* <prefix>/<id>/<id>.json, as far as VersionIndex reads it: the modern shape
\* has an assetIndex object {sha1, id}, the legacy shape a string "assets".
\* A payload that is not a JSON object parses to the empty object.
EmptyObject == [id |-> EmptyId, shape |-> "legacy", sha1 |-> "", assets |-> ""]
VersionPayloads(v) ==
    {[id |-> v, shape |-> "legacy", sha1 |-> "", assets |-> "x"],
     [id |-> v, shape |-> "modern", sha1 |-> "s", assets |-> "x"],
     EmptyObject}

VersionIndex(jObject) ==
    [id |-> jObject.id,
     assetsIndex |-> IF jObject.shape = "modern"
                     THEN jObject.sha1 \o "/" \o jObject.assets
                     ELSE jObject.assets]

VersionShapes == {"legacy", "modern"}
AssetsRefs == {"x", "s/x"}

\* assets/indexes/<assets>.json and <prefix>/<id>/data.json are stored as
\* fetched and not read by the fetch flows
AssetsPayload == [json |-> "assets"]
DataPayload == [json |-> "data"]

\* QJsonDocument::fromJson(file.readAll()).object() of a file on disk
ReadObject(file) == IF file.kind = "complete" THEN file.bytes ELSE EmptyObject

----------------------------------------------------------------------------
(* Construction *)

\* the version ids of `ids` in the order of QDir::entryList (by name)
RECURSIVE Ascending(_)
Ascending(S) ==
    IF S = {} THEN <<>>
    ELSE LET m == CHOOSE x \in S : \A y \in S : x <= y
         IN <<m>> \o Ascending(S \ {m})

\* findLocalVersions without the comparison of the id in the descriptor
findLocalVersions_unchecked(cat, disk, prefixId) ==
    LET prefix == cat[prefixId]
        dirs == {v \in VersionIds : disk[<<prefixId, v>>].main.kind # "none"}
        sorted == SortDesc(prefix.versions \o Ascending(dirs))
    IN [cat EXCEPT ![prefixId] =
            [about |-> prefix.about,
             versions |-> sorted,
             latestVersionId |-> IF Len(sorted) > 1 THEN sorted[2]
                                 ELSE prefix.latestVersionId]]

\* findLocalVersions with the greatest version as the latest one
findLocalVersions_first(cat, disk, prefixId) ==
    LET prefix == cat[prefixId]
        dirs == {v \in VersionIds : disk[<<prefixId, v>>].main.kind # "none"}
        accepted == {v \in dirs :
                        VersionIndex(ReadObject(disk[<<prefixId, v>>].main)).id = v}
        sorted == SortDesc(prefix.versions \o Ascending(accepted))
    IN [cat EXCEPT ![prefixId] =
            [about |-> prefix.about,
             versions |-> sorted,
             latestVersionId |-> IF Len(sorted) > 0 THEN sorted[1]
                                 ELSE prefix.latestVersionId]]

findLocalVersions(cat, disk, prefixId) ==
    LET prefix == cat[prefixId]
        dirs == {v \in VersionIds : disk[<<prefixId, v>>].main.kind # "none"}
        accepted == {v \in dirs :
                        VersionIndex(ReadObject(disk[<<prefixId, v>>].main)).id = v}
        sorted == SortDesc(prefix.versions \o Ascending(accepted))
    IN [cat EXCEPT ![prefixId] =
            [about |-> prefix.about,
             versions |-> sorted,
             latestVersionId |-> IF Len(sorted) > 1 THEN sorted[2]
                                 ELSE prefix.latestVersionId]]

\* index as read from prefixes.json by the constructor
LoadIndex(file) == IF file.kind = "complete" THEN file.bytes ELSE EmptyMap

RECURSIVE ConstructPrefixes(_, _, _, _)
ConstructPrefixes(cat, idx, disk, ids) ==
    IF ids = {} THEN cat
    ELSE LET id == CHOOSE x \in ids : TRUE
             inserted == Put(cat, id, Prefix(id, idx[id]))
         IN ConstructPrefixes(IF id = "" THEN cat
                              ELSE findLocalVersions(inserted, disk, id),
                              idx, disk, ids \ {id})

\* the stores a process can find when it starts
InitIndexFiles == {NoFile, Complete([k \in {"a"} |-> LocalAbout])}
InitLocalVersions == SUBSET ({"a"} \X {1})
VersionDir(present, v) ==
    [main |-> IF present THEN Complete([id |-> v, shape |-> "legacy",
                                        sha1 |-> "", assets |-> "x"])
              ELSE NoFile,
     data |-> IF present THEN Complete(DataPayload) ELSE NoFile]

\* flow.p: the prefixes the last discovery flow has enqueued and the ones it
\* has requested the versions of; flow.v: the version the last per-version
\* flow was started for, the stages whose file it has written completely and
\* the stages whose write has failed
NoFlow == [p |-> [enqueued |-> <<>>, requested |-> <<>>],
           v |-> [version |-> <<"", EmptyId>>, written |-> {}, failed |-> {}]]
NoEvent == [op |-> "constructor"]
NoSignal == [type |-> "none", result |-> FALSE]

Init ==
    /\ fetchingPrefixes = FALSE
    /\ fetchingVersionIndexes = FALSE
    /\ prefixFetchQueue = <<>>
    /\ indexFile \in InitIndexFiles
    /\ \E local \in InitLocalVersions :
          versionFiles = [fv \in FullVersionIds |-> VersionDir(fv \in local, fv[2])]
    /\ assetsFiles = [a \in AssetsRefs |-> NoFile]
    /\ index = LoadIndex(indexFile)
    /\ prefixes = ConstructPrefixes(EmptyMap, index, versionFiles, DOMAIN index)
    /\ requests = <<>>
    /\ started = [p |-> 0, v |-> 0]
    /\ signalled = [p |-> 0, v |-> 0]
    /\ emitted = NoSignal
    /\ flow = NoFlow
    /\ event = NoEvent
    /\ crashed = FALSE

\* the state the constructor leaves for the store in indexFile and versionFiles
Constructed ==
    /\ fetchingPrefixes = FALSE
    /\ fetchingVersionIndexes = FALSE
    /\ prefixFetchQueue = <<>>
    /\ assetsFiles = [a \in AssetsRefs |-> NoFile]
    /\ index = LoadIndex(indexFile)
    /\ prefixes = ConstructPrefixes(EmptyMap, index, versionFiles, DOMAIN index)
    /\ requests = <<>>
    /\ started = [p |-> 0, v |-> 0]
    /\ signalled = [p |-> 0, v |-> 0]
    /\ emitted = NoSignal
    /\ flow = NoFlow
    /\ event = NoEvent
    /\ crashed = FALSE

\* a store with any of the versions of prefix "a" installed
StoreLocalVersions == SUBSET ({"a"} \X VersionIds)

InitStore ==
    /\ indexFile \in InitIndexFiles
    /\ \E local \in StoreLocalVersions :
          versionFiles = [fv \in FullVersionIds |-> VersionDir(fv \in local, fv[2])]
    /\ Constructed

\* A version directory of a store of any kind: without a descriptor, or with
\* a descriptor that names the directory, names another version, is a JSON
\* object without "id", or was cut short.
DirStates == {"absent", "own", "other", "noId", "truncated"}

OtherVersion(v) == (v % MaxVersion) + 1

DirOf(state, v) ==
    [main |-> CASE state = "absent" -> NoFile
                [] state = "own" -> Complete([id |-> v, shape |-> "legacy",
                                              sha1 |-> "", assets |-> "x"])
                [] state = "other" -> Complete([id |-> OtherVersion(v),
                                                shape |-> "legacy",
                                                sha1 |-> "", assets |-> "x"])
                [] state = "noId" -> Complete(EmptyObject)
                [] state = "truncated" -> Truncated,
     data |-> NoFile]

\* prefixes.json of any kind, the empty prefix id among its keys
AnyIndexFiles ==
    {NoFile} \cup {Complete([k \in D |-> LocalAbout]) : D \in SUBSET ({""} \cup PrefixIds)}

InitAnyStore ==
    /\ indexFile \in AnyIndexFiles
    /\ \E dirs \in [VersionIds -> DirStates] :
          versionFiles = [fv \in FullVersionIds |->
                             DirOf(IF fv[1] = "a" THEN dirs[fv[2]] ELSE "absent", fv[2])]
    /\ Constructed

----------------------------------------------------------------------------
(* Requests *)

Req(kind, prefixId, version, assets) ==
    [kind |-> kind, prefixId |-> prefixId, version |-> version, assets |-> assets]

NoVersion == <<"", EmptyId>>

RemoveAt(s, i) == SubSeq(s, 1, i - 1) \o SubSeq(s, i + 1, Len(s))

PrefixKinds == {"prefixes", "versions"}
VersionKinds == {"main", "assets", "data"}

InFlight(kinds) == {i \in 1..Len(requests) : requests[i].kind \in kinds}

----------------------------------------------------------------------------
(* Prefix discovery flow *)

\* fetchPrefixes without its guard
fetchPrefixes_unguarded ==
    /\ ~crashed
    /\ event' = [op |-> "fetchPrefixes", accepted |-> TRUE]
    /\ emitted' = NoSignal
    /\ started.p + started.v < MaxFlows
    /\ fetchingPrefixes' = TRUE
    /\ requests' = Append(requests, Req("prefixes", "", NoVersion, ""))
    /\ started' = [started EXCEPT !.p = @ + 1]
    /\ flow' = [flow EXCEPT !.p = NoFlow.p]
    /\ UNCHANGED <<fetchingVersionIndexes, prefixFetchQueue, index,
                   prefixes, indexFile, versionFiles, assetsFiles,
                   signalled, crashed>>

fetchPrefixes ==
    /\ ~crashed
    /\ event' = [op |-> "fetchPrefixes", accepted |-> ~fetchingPrefixes]
    /\ emitted' = NoSignal
    /\ IF fetchingPrefixes
       THEN UNCHANGED <<programState, started, flow, crashed>>
       ELSE /\ started.p + started.v < MaxFlows
            /\ fetchingPrefixes' = TRUE
            /\ requests' = Append(requests, Req("prefixes", "", NoVersion, ""))
            /\ started' = [started EXCEPT !.p = @ + 1]
            /\ flow' = [flow EXCEPT !.p = NoFlow.p]
            /\ UNCHANGED <<fetchingVersionIndexes, prefixFetchQueue, index,
                           prefixes, indexFile, versionFiles, assetsFiles,
                           signalled, crashed>>

\* sets fetchingPrefixes, prefixFetchQueue, signalled, emitted
setFetchPrefixesResult(result) ==
    /\ prefixFetchQueue' = <<>>
    /\ fetchingPrefixes' = FALSE
    /\ signalled' = [signalled EXCEPT !.p = @ + 1]
    /\ emitted' = [type |-> "p", result |-> result]

\* fetchNextPrefixOrFinish requesting every queued prefix at once
fetchNextPrefixOrFinish_all(queue, reqs, fl) ==
    IF queue = <<>>
    THEN /\ setFetchPrefixesResult(TRUE)
         /\ requests' = reqs
         /\ flow' = fl
    ELSE /\ prefixFetchQueue' = <<>>
         /\ requests' = reqs \o [i \in 1..Len(queue) |->
                                    Req("versions", queue[i], NoVersion, "")]
         /\ flow' = [fl EXCEPT !.p.requested = @ \o queue]
         /\ emitted' = NoSignal
         /\ UNCHANGED <<fetchingPrefixes, signalled>>

\* sets fetchingPrefixes, prefixFetchQueue, signalled, emitted, requests, flow;
\* queue, reqs and fl are the values the calling handler has reached
fetchNextPrefixOrFinish(queue, reqs, fl) ==
    IF queue = <<>>
    THEN /\ setFetchPrefixesResult(TRUE)
         /\ requests' = reqs
         /\ flow' = fl
    ELSE /\ prefixFetchQueue' = Tail(queue)
         /\ requests' = Append(reqs, Req("versions", Head(queue), NoVersion, ""))
         /\ flow' = [fl EXCEPT !.p.requested = Append(@, Head(queue))]
         /\ emitted' = NoSignal
         /\ UNCHANGED <<fetchingPrefixes, signalled>>

\* the foreach of the prefixes.json handler, over the keys in the order `order`
RECURSIVE MergePrefixes(_, _, _)
MergePrefixes(st, remote, order) ==
    IF order = <<>> THEN st
    ELSE LET id == Head(order)
         IN MergePrefixes(
                [index |-> Put(st.index, id, remote[id]),
                 queue |-> Append(st.queue, id),
                 prefixes |-> IF id \in DOMAIN st.prefixes THEN st.prefixes
                              ELSE Put(st.prefixes, id, Prefix(id, remote[id]))],
                remote, Tail(order))

\* the prefixes.json reply finished with an error
onPrefixesIndexError ==
    /\ ~crashed
    /\ \E i \in InFlight({"prefixes"}) :
          /\ event' = [op |-> "onPrefixesIndexError"]
          /\ setFetchPrefixesResult(FALSE)
          /\ requests' = RemoveAt(requests, i)
          /\ UNCHANGED <<fetchingVersionIndexes, index, prefixes, indexFile,
                         versionFiles, assetsFiles, started, flow, crashed>>

\* the prefixes.json reply finished without error, with one of `payloads`
PrefixesIndexFinished(payloads) ==
    /\ ~crashed
    /\ \E i \in InFlight({"prefixes"}), payload \in payloads,
          o \in OpenOutcomes, w \in WriteOutcomes :
        LET remoteIndex == PrefixesIndex(payload)
        IN \E order \in Orders(DOMAIN remoteIndex) :
            LET merged == MergePrefixes([index |-> index,
                                         queue |-> prefixFetchQueue,
                                         prefixes |-> prefixes],
                                        remoteIndex, order)
                rest == RemoveAt(requests, i)
                fl == [flow EXCEPT !.p.enqueued = merged.queue]
            IN /\ event' = [op |-> "onPrefixesIndexFinished", json |-> payload.json,
                            remote |-> remoteIndex, open |-> o, write |-> w]
               /\ index' = merged.index
               /\ prefixes' = merged.prefixes
               /\ indexFile' = WriteFile(indexFile, merged.index, o, w)
               /\ IF o = "openFailed"
                  THEN /\ setFetchPrefixesResult(FALSE)
                       /\ requests' = rest
                       /\ flow' = fl
                  ELSE fetchNextPrefixOrFinish(merged.queue, rest, fl)
               /\ UNCHANGED <<fetchingVersionIndexes, versionFiles, assetsFiles,
                              started, crashed>>

\* remote indexes with prefix "a" alone, or empty
OnePrefixPayloads == {p \in PrefixesPayloads : DOMAIN p.prefixes \subseteq {"a"}}

onPrefixesIndexFinished == PrefixesIndexFinished(OnePrefixPayloads)

\* the error handler going on with the next queued prefix
onPrefixVersionsError_skip ==
    /\ ~crashed
    /\ \E i \in InFlight({"versions"}) :
          /\ event' = [op |-> "onPrefixVersionsError",
                       prefixId |-> requests[i].prefixId]
          /\ fetchNextPrefixOrFinish(prefixFetchQueue, RemoveAt(requests, i), flow)
          /\ UNCHANGED <<fetchingVersionIndexes, index, prefixes, indexFile,
                         versionFiles, assetsFiles, started, crashed>>

\* a versions.json reply finished with an error
onPrefixVersionsError ==
    /\ ~crashed
    /\ \E i \in InFlight({"versions"}) :
          /\ event' = [op |-> "onPrefixVersionsError",
                       prefixId |-> requests[i].prefixId]
          /\ setFetchPrefixesResult(FALSE)
          /\ requests' = RemoveAt(requests, i)
          /\ UNCHANGED <<fetchingVersionIndexes, index, prefixes, indexFile,
                         versionFiles, assetsFiles, started, flow, crashed>>

\* MergeVersions with the remote list in the place of the merged one
MergeVersions_replace(prefix, versionsIndex) ==
    [about |-> prefix.about,
     versions |-> SortDesc(versionsIndex.versions),
     latestVersionId |-> versionsIndex.latest]

\* the merge of a versions.json into the version list of a prefix
MergeVersions(prefix, versionsIndex) ==
    LET knownVersions == Range(prefix.versions)
        new == SelectSeq(versionsIndex.versions, LAMBDA v : v \notin knownVersions)
    IN [about |-> prefix.about,
        versions |-> SortDesc(prefix.versions \o new),
        latestVersionId |-> versionsIndex.latest]

\* a versions.json reply finished without error, with one of `payloads`
PrefixVersionsFinished(payloads) ==
    /\ ~crashed
    /\ \E i \in InFlight({"versions"}), payload \in payloads :
        LET prefixId == requests[i].prefixId
            versionsIndex == PrefixVersionsIndex(payload)
        IN /\ event' = [op |-> "onPrefixVersionsFinished",
                        prefixId |-> prefixId,
                        remote |-> versionsIndex.versions,
                        latest |-> versionsIndex.latest]
           /\ prefixes' = [prefixes EXCEPT
                              ![prefixId] = MergeVersions(@, versionsIndex)]
           /\ fetchNextPrefixOrFinish(prefixFetchQueue, RemoveAt(requests, i), flow)
           /\ UNCHANGED <<fetchingVersionIndexes, index, indexFile, versionFiles,
                          assetsFiles, started, crashed>>

onPrefixVersionsFinished == PrefixVersionsFinished(VersionsPayloads)

----------------------------------------------------------------------------
(* Per-version index fetch flow *)

\* sets requests
fetchVersionMainIndex(version) ==
    requests' = Append(requests, Req("main", "", version, ""))

\* fetchVersionIndexes(version) for one of `targets`
FetchVersionIndexes(targets) ==
    /\ ~crashed
    /\ \E version \in targets :
          /\ event' = [op |-> "fetchVersionIndexes", version |-> version,
                       accepted |-> ~fetchingVersionIndexes]
          /\ emitted' = NoSignal
          /\ IF fetchingVersionIndexes
             THEN UNCHANGED <<programState, started, flow, crashed>>
             ELSE /\ started.p + started.v < MaxFlows
                  /\ fetchingVersionIndexes' = TRUE
                  /\ fetchVersionMainIndex(version)
                  /\ started' = [started EXCEPT !.v = @ + 1]
                  /\ flow' = [flow EXCEPT !.v = [NoFlow.v EXCEPT !.version = version]]
                  /\ UNCHANGED <<fetchingPrefixes, prefixFetchQueue, index,
                                 prefixes, indexFile, versionFiles, assetsFiles,
                                 signalled, crashed>>

fetchVersionIndexes == FetchVersionIndexes(FetchTargets)

\* sets fetchingVersionIndexes, signalled, emitted
setFetchVersionIndexesResult(result) ==
    /\ fetchingVersionIndexes' = FALSE
    /\ signalled' = [signalled EXCEPT !.v = @ + 1]
    /\ emitted' = [type |-> "v", result |-> result]

\* what the write of a stage adds to flow.v
Wrote(fl, stage, o, w) ==
    IF o = "openFailed" THEN fl
    ELSE IF w = "written" THEN [fl EXCEPT !.v.written = @ \cup {stage}]
    ELSE [fl EXCEPT !.v.failed = @ \cup {stage}]

\* a reply of the per-version flow finished with an error
onVersionReplyError(kind) ==
    /\ ~crashed
    /\ \E i \in InFlight({kind}) :
          /\ event' = [op |-> "onVersionReplyError", kind |-> kind]
          /\ setFetchVersionIndexesResult(FALSE)
          /\ requests' = RemoveAt(requests, i)
          /\ UNCHANGED <<fetchingPrefixes, prefixFetchQueue, index, prefixes,
                         indexFile, versionFiles, assetsFiles, started, flow,
                         crashed>>

onVersionIndexError == onVersionReplyError("main")
onAssetsIndexError == onVersionReplyError("assets")
onDataIndexError == onVersionReplyError("data")

\* fetchVersionAssetsIndex returning without a result on an empty reference
fetchVersionAssetsIndex_silent(version, assets, reqs) ==
    IF assets = ""
    THEN /\ requests' = reqs
         /\ emitted' = NoSignal
         /\ UNCHANGED <<fetchingVersionIndexes, signalled>>
    ELSE /\ requests' = Append(reqs, Req("assets", "", version, assets))
         /\ emitted' = NoSignal
         /\ UNCHANGED <<fetchingVersionIndexes, signalled>>

\* sets fetchingVersionIndexes, signalled, emitted, requests
fetchVersionAssetsIndex(version, assets, reqs) ==
    IF assets = ""
    THEN /\ setFetchVersionIndexesResult(FALSE)
         /\ requests' = reqs
    ELSE /\ requests' = Append(reqs, Req("assets", "", version, assets))
         /\ emitted' = NoSignal
         /\ UNCHANGED <<fetchingVersionIndexes, signalled>>

\* the <id>.json reply finished without error, with a payload of one of `shapes`
VersionIndexFinished(shapes) ==
    /\ ~crashed
    /\ \E i \in InFlight({"main"}), o \in OpenOutcomes, w \in WriteOutcomes :
        LET version == requests[i].version
            rest == RemoveAt(requests, i)
        IN \E data \in {p \in VersionPayloads(version[2]) : p.shape \in shapes} :
            /\ event' = [op |-> "onVersionIndexFinished", version |-> version,
                         data |-> data, open |-> o, write |-> w]
            /\ versionFiles' = [versionFiles EXCEPT ![version].main =
                                    WriteFile(@, data, o, w)]
            /\ flow' = Wrote(flow, "main", o, w)
            /\ IF o = "openFailed"
               THEN /\ setFetchVersionIndexesResult(FALSE)
                    /\ requests' = rest
               ELSE fetchVersionAssetsIndex(version, VersionIndex(data).assetsIndex,
                                            rest)
            /\ UNCHANGED <<fetchingPrefixes, prefixFetchQueue, index, prefixes,
                           indexFile, assetsFiles, started, crashed>>

onVersionIndexFinished == VersionIndexFinished(VersionShapes)

\* sets requests
fetchVersionDataIndex(version, reqs) ==
    requests' = Append(reqs, Req("data", "", version, ""))

\* the assets index reply finished without error
onAssetsIndexFinished ==
    /\ ~crashed
    /\ \E i \in InFlight({"assets"}), o \in OpenOutcomes, w \in WriteOutcomes :
        LET version == requests[i].version
            assets == requests[i].assets
            rest == RemoveAt(requests, i)
        IN /\ event' = [op |-> "onAssetsIndexFinished", version |-> version,
                        assets |-> assets, open |-> o, write |-> w]
           /\ assetsFiles' = [assetsFiles EXCEPT ![assets] =
                                  WriteFile(@, AssetsPayload, o, w)]
           /\ flow' = Wrote(flow, "assets", o, w)
           /\ IF o = "openFailed"
              THEN /\ setFetchVersionIndexesResult(FALSE)
                   /\ requests' = rest
              ELSE /\ fetchVersionDataIndex(version, rest)
                   /\ emitted' = NoSignal
                   /\ UNCHANGED <<fetchingVersionIndexes, signalled>>
           /\ UNCHANGED <<fetchingPrefixes, prefixFetchQueue, index, prefixes,
                          indexFile, versionFiles, started, crashed>>

\* the data.json reply finished without error
onDataIndexFinished ==
    /\ ~crashed
    /\ \E i \in InFlight({"data"}), o \in OpenOutcomes, w \in WriteOutcomes :
        LET version == requests[i].version
        IN /\ event' = [op |-> "onDataIndexFinished", version |-> version,
                        open |-> o, write |-> w]
           /\ versionFiles' = [versionFiles EXCEPT ![version].data =
                                   WriteFile(@, DataPayload, o, w)]
           /\ flow' = Wrote(flow, "data", o, w)
           /\ setFetchVersionIndexesResult(o = "opened")
           /\ requests' = RemoveAt(requests, i)
           /\ UNCHANGED <<fetchingPrefixes, prefixFetchQueue, index, prefixes,
                          indexFile, assetsFiles, started, crashed>>

----------------------------------------------------------------------------
(* The flows one at a time: the discovery of one prefix with every version   *)
(* list, the fetch of every version with every version index                *)

NextPrefixes ==
    \/ fetchPrefixes
    \/ onPrefixesIndexError
    \/ onPrefixesIndexFinished
    \/ onPrefixVersionsError
    \/ onPrefixVersionsFinished

SpecPrefixes == Init /\ [][NextPrefixes]_vars

\* the discovery flow over a store with several versions installed
SpecStore == InitStore /\ [][NextPrefixes]_vars

NextVersions ==
    \/ fetchVersionIndexes
    \/ onVersionIndexError
    \/ onVersionIndexFinished
    \/ onAssetsIndexError
    \/ onAssetsIndexFinished
    \/ onDataIndexError
    \/ onDataIndexFinished

SpecVersions == Init /\ [][NextVersions]_vars

----------------------------------------------------------------------------
(* Local discovery: the constructor over a store of any kind, and            *)
(* findLocalVersions run again for a prefix of the catalog                  *)

findLocalVersionsAgain ==
    /\ ~crashed
    /\ \E prefixId \in DOMAIN prefixes :
          /\ Len(prefixes[prefixId].versions) <= MaxVersion
          /\ event' = [op |-> "findLocalVersions", prefixId |-> prefixId]
          /\ prefixes' = findLocalVersions(prefixes, versionFiles, prefixId)
          /\ emitted' = NoSignal
          /\ UNCHANGED <<fetchingPrefixes, fetchingVersionIndexes,
                         prefixFetchQueue, index, requests, indexFile,
                         versionFiles, assetsFiles, started, signalled, flow,
                         crashed>>

NextDiscovery == findLocalVersionsAgain

SpecDiscovery == InitAnyStore /\ [][NextDiscovery]_vars

----------------------------------------------------------------------------
(* The discovery flow with a process that can die while it saves the index *)

\* The prefixes.json handler runs up to the point `point` of saving the index
\* and the process dies there: before QFile::open, between open and the end
\* of write, or after the write.
CrashPoints == {"beforeOpen", "afterOpen", "afterWrite"}

crashInPersist ==
    /\ ~crashed
    /\ \E i \in InFlight({"prefixes"}), payload \in PrefixesPayloads,
          point \in CrashPoints :
        LET remoteIndex == PrefixesIndex(payload)
        IN \E order \in Orders(DOMAIN remoteIndex) :
            LET merged == MergePrefixes([index |-> index,
                                         queue |-> prefixFetchQueue,
                                         prefixes |-> prefixes],
                                        remoteIndex, order)
            IN /\ event' = [op |-> "crashInPersist", before |-> indexFile,
                            merged |-> merged.index, point |-> point]
               /\ indexFile' = CASE point = "beforeOpen" -> indexFile
                                  [] point = "afterOpen" -> Truncated
                                  [] point = "afterWrite" -> Complete(merged.index)
               /\ crashed' = TRUE
               /\ emitted' = NoSignal
               /\ UNCHANGED <<fetchingPrefixes, fetchingVersionIndexes,
                              prefixFetchQueue, index, prefixes, requests,
                              versionFiles, assetsFiles, started, signalled,
                              flow>>

NextCrash == NextPrefixes \/ crashInPersist

SpecCrash == Init /\ [][NextCrash]_vars

----------------------------------------------------------------------------
(* Both flows interleaved, with two prefixes to queue: every call and every  *)
(* handler, with few payloads                                               *)

FewPrefixesPayloads ==
    {p \in PrefixesPayloads : DOMAIN p.prefixes \in {{}, PrefixIds}}
FewVersionsPayloads == {p \in VersionsPayloads : p.versions = <<1>> /\ p.latest = 1}
FewVersionShapes == {"legacy"}
FewTargets == {<<"a", 1>>}

startVersionIndexes == FetchVersionIndexes(FewTargets)
prefixesIndexFinished == PrefixesIndexFinished(FewPrefixesPayloads)
prefixVersionsFinished == PrefixVersionsFinished(FewVersionsPayloads)
versionIndexFinished == VersionIndexFinished(FewVersionShapes)

Next ==
    \/ fetchPrefixes
    \/ onPrefixesIndexError
    \/ prefixesIndexFinished
    \/ onPrefixVersionsError
    \/ prefixVersionsFinished
    \/ startVersionIndexes
    \/ onVersionIndexError
    \/ versionIndexFinished
    \/ onAssetsIndexError
    \/ onAssetsIndexFinished
    \/ onDataIndexError
    \/ onDataIndexFinished

Spec == Init /\ [][Next]_vars

\* every request that was issued finishes, with or without error
Completion ==
    /\ WF_vars(onPrefixesIndexError \/ prefixesIndexFinished)
    /\ WF_vars(onPrefixVersionsError \/ prefixVersionsFinished)
    /\ WF_vars(onVersionIndexError \/ versionIndexFinished)
    /\ WF_vars(onAssetsIndexError \/ onAssetsIndexFinished)
    /\ WF_vars(onDataIndexError \/ onDataIndexFinished)

FairSpec == Spec /\ Completion

----------------------------------------------------------------------------
(* fillVersionFiles over the descriptors of one version on disk *)

MaxLibs == 2

storeUrl == "store"
versionsPath == "versions"
dataPath == "data"

\* FullVersionId::toString
VersionToString(version) == version[1] \o "/" \o ToString(version[2])

FileInfo(url, path, hash, size) ==
    [url |-> url, path |-> path, hash |-> hash, size |-> size]

\* data.json: main: {hash, size}, files: {relpath: {hash, size}},
\* libs: {storagepath: {hash, size}}; the keys of a mapping are visited in
\* the order of FileNames and LibPaths
FileNames == <<"f1", "f2">>
LibPaths == <<"p1", "p2">>
CheckInfoOf == [k \in {"main", "f1", "f2", "p1", "p2"} |->
                   CASE k = "main" -> [hash |-> "hm", size |-> 10]
                     [] k = "f1" -> [hash |-> "h1", size |-> 11]
                     [] k = "f2" -> [hash |-> "h2", size |-> 12]
                     [] k = "p1" -> [hash |-> "h3", size |-> 13]
                     [] k = "p2" -> [hash |-> "h4", size |-> 14]]
DataObjects ==
    {[json |-> "data", main |-> CheckInfoOf["main"],
      files |-> [k \in F |-> CheckInfoOf[k]],
      libs |-> [k \in L |-> CheckInfoOf[k]]] :
        F \in {{}, {"f1"}, {"f1", "f2"}}, L \in SUBSET Range(LibPaths)}
EmptyDataObject == [json |-> "empty", main |-> [hash |-> "", size |-> 0],
                    files |-> EmptyMap, libs |-> EmptyMap]

\* DataIndex(jObject) and DataIndex::isValid
DataIndex(jObject) == jObject
DataIndexIsValid(dataIndex) == dataIndex.json = "data"

\* the libraries of <id>.json: the answers of the platform to
\* isLibraryAllowed and getLibraryPath stand for the rules and the
\* coordinates of a library
Libraries == [allowed : BOOLEAN, path : Range(LibPaths)]
VersionObjects ==
    {[id |-> 1, shape |-> sh, sha1 |-> IF sh = "modern" THEN "s" ELSE "",
      assets |-> "x", libraries |-> libs] :
        sh \in VersionShapes, libs \in SeqsUpTo(Libraries, MaxLibs)}

isLibraryAllowed(libInfo) == libInfo.allowed
getLibraryPath(libInfo) == libInfo.path

\* jObject["libraries"].toArray(): empty when the key is missing
LibrariesOf(jObject) ==
    IF "libraries" \in DOMAIN jObject THEN jObject.libraries ELSE <<>>

\* VersionIndex::isValid
VersionIndexIsValid(versionIndex) == versionIndex.id # EmptyId

\* assets/indexes/<ref>.json: objects: {name: {hash, size}}, visited in the
\* order of AssetNames
AssetNames == <<"o1", "o2">>
AssetInfoOf == [k \in Range(AssetNames) |->
                   IF k = "o1" THEN [hash |-> "ab12", size |-> 21]
                   ELSE [hash |-> "cd34", size |-> 22]]
AssetsObjects ==
    {[json |-> "assets", objects |-> [k \in O |-> AssetInfoOf[k]]] :
        O \in {{}, {"o1"}, {"o1", "o2"}}}
EmptyAssetsObject == [json |-> "empty", objects |-> EmptyMap]

\* AssetsIndex(jObject) and AssetsIndex::isValid
AssetsIndex(jObject) == jObject
AssetsIndexIsValid(assetsIndex) == assetsIndex.json = "assets"

\* QString::mid(0, 2) of the hashes of AssetInfoOf
Mid02(hash) == IF hash = "ab12" THEN "ab" ELSE "cd"

\* loadIndex<T>(path): the object read from the file, the empty object when
\* the file is absent or is not a JSON document
loadIndex(file, empty) == IF file.kind = "complete" THEN file.bytes ELSE empty

AssetsFileOf(ref) == IF ref \in DOMAIN assetsFiles THEN assetsFiles[ref] ELSE NoFile

JarInfo(version, dataIndex) ==
    LET tail == "/" \o version[1] \o "/" \o ToString(version[2])
                    \o "/" \o ToString(version[2]) \o ".jar"
    IN FileInfo(storeUrl \o tail, versionsPath \o tail,
                dataIndex.main.hash, dataIndex.main.size)

AuxiliaryInfo(version, dataIndex, fileName) ==
    LET tail == "/" \o VersionToString(version) \o "/files/" \o fileName
    IN FileInfo(storeUrl \o tail, versionsPath \o tail,
                dataIndex.files[fileName].hash, dataIndex.files[fileName].size)

\* AuxiliaryFiles with the check info of the main artifact
AuxiliaryFiles_mainInfo(version, dataIndex) ==
    LET tail(fileName) == "/" \o VersionToString(version) \o "/files/" \o fileName
        names == SelectSeq(FileNames, LAMBDA n : n \in DOMAIN dataIndex.files)
    IN [i \in 1..Len(names) |->
           FileInfo(storeUrl \o tail(names[i]), versionsPath \o tail(names[i]),
                    dataIndex.main.hash, dataIndex.main.size)]

AuxiliaryFiles(version, dataIndex) ==
    LET names == SelectSeq(FileNames, LAMBDA n : n \in DOMAIN dataIndex.files)
    IN [i \in 1..Len(names) |-> AuxiliaryInfo(version, dataIndex, names[i])]

LibraryInfoOf(dataIndex, libPath) ==
    FileInfo(storeUrl \o "/libraries/" \o libPath,
             dataPath \o "/libraries/" \o libPath,
             dataIndex.libs[libPath].hash, dataIndex.libs[libPath].size)

\* LibraryFiles without the test of the platform
LibraryFiles_anyPlatform(libraries, dataIndex) ==
    LET kept == SelectSeq(libraries,
                          LAMBDA l : getLibraryPath(l) \in DOMAIN dataIndex.libs)
    IN [i \in 1..Len(kept) |-> LibraryInfoOf(dataIndex, getLibraryPath(kept[i]))]

LibraryFiles(libraries, dataIndex) ==
    LET kept == SelectSeq(libraries,
                          LAMBDA l : /\ isLibraryAllowed(l)
                                     /\ getLibraryPath(l) \in DOMAIN dataIndex.libs)
    IN [i \in 1..Len(kept) |-> LibraryInfoOf(dataIndex, getLibraryPath(kept[i]))]

\* the storage paths the warning "Library ... is missing" is logged for
MissingLibraries(libraries, dataIndex) ==
    LET missing == SelectSeq(libraries,
                             LAMBDA l : /\ isLibraryAllowed(l)
                                        /\ getLibraryPath(l) \notin DOMAIN dataIndex.libs)
    IN [i \in 1..Len(missing) |-> getLibraryPath(missing[i])]

AssetInfo(asset) ==
    LET name == Mid02(asset.hash) \o "/" \o asset.hash
    IN FileInfo(storeUrl \o "/assets/objects/" \o name,
                dataPath \o "/assets/objects/" \o name, asset.hash, asset.size)

AssetFiles(assetsIndex) ==
    LET names == SelectSeq(AssetNames, LAMBDA n : n \in DOMAIN assetsIndex.objects)
    IN [i \in 1..Len(names) |-> AssetInfo(assetsIndex.objects[names[i]])]

DataIndexError == "Failed to load data index!"
VersionIndexError == "Failed to load version index!"

\* fillVersionFiles(version, files): the value returned, the list `files` as
\* the call leaves it, the error and the warnings logged
fillVersionFiles(version, files) ==
    LET dataIndex == DataIndex(loadIndex(versionFiles[version].data, EmptyDataObject))
        jObject == loadIndex(versionFiles[version].main, EmptyObject)
        versionIndex == VersionIndex(jObject)
        libraries == LibrariesOf(jObject)
        assetsIndex == AssetsIndex(loadIndex(AssetsFileOf(versionIndex.assetsIndex),
                                             EmptyAssetsObject))
        withFiles == files \o <<JarInfo(version, dataIndex)>>
                           \o AuxiliaryFiles(version, dataIndex)
        withLibs == withFiles \o LibraryFiles(libraries, dataIndex)
    IN IF ~DataIndexIsValid(dataIndex)
       THEN [result |-> FALSE, files |-> files, error |-> DataIndexError,
             warnings |-> <<>>]
       ELSE IF ~VersionIndexIsValid(versionIndex)
       THEN [result |-> FALSE, files |-> withFiles, error |-> VersionIndexError,
             warnings |-> <<>>]
       ELSE IF ~AssetsIndexIsValid(assetsIndex)
       THEN [result |-> FALSE, files |-> withLibs, error |-> VersionIndexError,
             warnings |-> MissingLibraries(libraries, dataIndex)]
       ELSE [result |-> TRUE, files |-> withLibs \o AssetFiles(assetsIndex),
             error |-> "", warnings |-> MissingLibraries(libraries, dataIndex)]

\* the version the file list is assembled for and the lists a caller passes
FillTarget == <<"a", 1>>
OtherFile == FileInfo("other", "other", "h0", 1)
CallerLists == {<<>>, <<OtherFile>>}

DataFiles == {NoFile, Truncated} \cup {Complete(d) : d \in DataObjects}
MainFiles == {NoFile, Truncated, Complete(EmptyObject)}
                 \cup {Complete(v) : v \in VersionObjects}
AssetsIndexFiles == {NoFile} \cup {Complete(a) : a \in AssetsObjects}

InitFiles ==
    /\ indexFile = Complete([k \in {"a"} |-> LocalAbout])
    /\ \E data \in DataFiles, main \in MainFiles :
          versionFiles = [fv \in FullVersionIds |->
                             IF fv = FillTarget THEN [main |-> main, data |-> data]
                             ELSE VersionDir(FALSE, fv[2])]
    /\ fetchingPrefixes = FALSE
    /\ fetchingVersionIndexes = FALSE
    /\ prefixFetchQueue = <<>>
    /\ assetsFiles \in [AssetsRefs -> AssetsIndexFiles]
    /\ index = LoadIndex(indexFile)
    /\ prefixes = ConstructPrefixes(EmptyMap, index, versionFiles, DOMAIN index)
    /\ requests = <<>>
    /\ started = [p |-> 0, v |-> 0]
    /\ signalled = [p |-> 0, v |-> 0]
    /\ emitted = NoSignal
    /\ flow = NoFlow
    /\ event = NoEvent
    /\ crashed = FALSE

callFillVersionFiles ==
    /\ ~crashed
    /\ \E files \in CallerLists :
          LET out == fillVersionFiles(FillTarget, files)
          IN event' = [op |-> "fillVersionFiles", version |-> FillTarget,
                       before |-> files, result |-> out.result,
                       files |-> out.files, error |-> out.error,
                       warnings |-> out.warnings]
    /\ emitted' = NoSignal
    /\ UNCHANGED <<programState, started, flow, crashed>>

NextFiles == callFillVersionFiles

SpecFiles == InitFiles /\ [][NextFiles]_vars

----------------------------------------------------------------------------
(* Claims *)

SignalOf(type, result) == [type |-> type, result |-> result]

\* C1: a call of fetchPrefixes while fetchingPrefixes is set, or of
\* fetchVersionIndexes while fetchingVersionIndexes is set, issues no request,
\* leaves both flags, the queue, the catalog and the files as they were and
\* emits no outcome signal.
C1_RejectedStartChangesNothing ==
    [][/\ (event'.op = "fetchPrefixes" /\ fetchingPrefixes)
            => (UNCHANGED programState /\ emitted' = NoSignal)
       /\ (event'.op = "fetchVersionIndexes" /\ fetchingVersionIndexes)
            => (UNCHANGED programState /\ emitted' = NoSignal)]_vars

\* a start of the discovery flow was rejected while a version-list request of
\* the running flow and a request of the per-version flow were outstanding
C1_Witness ==
    /\ event.op = "fetchPrefixes" /\ ~event.accepted
    /\ InFlight({"versions"}) # {}
    /\ InFlight(VersionKinds) # {}

\* C2: when every request finishes, each accepted start of a flow is followed
\* by exactly one outcome signal of that flow, and the flag of the flow is set
\* from the start to the signal and clear from the signal on.
C2_OneOutcomePerStart ==
    /\ [](signalled.p = started.p - (IF fetchingPrefixes THEN 1 ELSE 0))
    /\ [](signalled.v = started.v - (IF fetchingVersionIndexes THEN 1 ELSE 0))
    /\ [](emitted.type = "p" => ~fetchingPrefixes)
    /\ [](emitted.type = "v" => ~fetchingVersionIndexes)
    /\ \A n \in 1..(MaxFlows + 1) :
          /\ (started.p = n) ~> (signalled.p = n)
          /\ (started.v = n) ~> (signalled.v = n)

\* the per-version flow has ended in failure on an empty assets reference
C2_Witness ==
    /\ event.op = "onVersionIndexFinished"
    /\ VersionIndex(event.data).assetsIndex = ""
    /\ event.open = "opened"
    /\ emitted = SignalOf("v", FALSE)
    /\ started.v = 1 /\ signalled.v = 1

\* C3: neither flow ever has two of its own requests outstanding.
C3_OneRequestPerFlow ==
    /\ Cardinality(InFlight(PrefixKinds)) <= 1
    /\ Cardinality(InFlight(VersionKinds)) <= 1

\* a version-list request with a prefix still queued behind it, next to a
\* request of the per-version flow
C3_Witness ==
    /\ InFlight({"versions"}) # {}
    /\ prefixFetchQueue # <<>>
    /\ InFlight({"data"}) # {}

IsPrefixOf(s, t) == Len(s) <= Len(t) /\ s = SubSeq(t, 1, Len(s))

\* C7: a failed version-list request ends the discovery flow in failure with
\* the queue emptied and no request for the prefixes that were still queued;
\* the queued prefixes are requested one at a time in queue order, and success
\* is reported only with the queue empty and every queued prefix requested.
C7_QueueDrainedInOrderOrAborted ==
    /\ IsPrefixOf(flow.p.requested, flow.p.enqueued)
    /\ \A i \in InFlight({"versions"}) :
          /\ flow.p.requested # <<>>
          /\ requests[i].prefixId = flow.p.requested[Len(flow.p.requested)]
          /\ flow.p.requested \o prefixFetchQueue = flow.p.enqueued
    /\ event.op = "onPrefixVersionsError" =>
          /\ emitted = SignalOf("p", FALSE)
          /\ prefixFetchQueue = <<>>
          /\ InFlight(PrefixKinds) = {}
    /\ ~fetchingPrefixes => InFlight(PrefixKinds) = {} /\ prefixFetchQueue = <<>>
    /\ emitted = SignalOf("p", TRUE) =>
          prefixFetchQueue = <<>> /\ flow.p.requested = flow.p.enqueued

\* the version-list request of the first of two queued prefixes has failed
C7_Witness ==
    /\ event.op = "onPrefixVersionsError"
    /\ Len(flow.p.enqueued) = 2
    /\ flow.p.requested = <<flow.p.enqueued[1]>>
    /\ emitted = SignalOf("p", FALSE)

Max(a, b) == IF a >= b THEN a ELSE b

\* C5: after the merge of a remote prefixes index the keys of the catalog are
\* the keys of the local index and of the remote index together, and every
\* remote prefix has the remote description in the catalog.
C5_RemoteDescriptionWins ==
    [][event'.op = "onPrefixesIndexFinished" =>
          /\ DOMAIN prefixes' = (DOMAIN index) \cup (DOMAIN event'.remote)
          /\ \A id \in DOMAIN event'.remote :
                prefixes'[id].about = event'.remote[id]]_vars

\* C6: after the merge of a remote version list the version list of the
\* prefix is the descending list, without repetition, of the local and the
\* remote identifiers together, at least as long as either list.
C6_VersionsAreSortedUnion ==
    [][event'.op = "onPrefixVersionsFinished" =>
          LET local == prefixes[event'.prefixId].versions
              merged == prefixes'[event'.prefixId].versions
          IN /\ merged = DescOf(Range(local) \cup Range(event'.remote))
             /\ Len(merged) >= Max(Len(local), Len(event'.remote))]_vars

\* C8: when the merged index cannot be saved the discovery flow reports
\* failure and requests no version list, with every remote prefix in the
\* catalog; a version list is requested only with the merged index on disk.
C8_VersionsOnlyAfterIndexSaved ==
    /\ (event.op = "onPrefixesIndexFinished" /\ event.open = "openFailed") =>
          /\ emitted = SignalOf("p", FALSE)
          /\ InFlight(PrefixKinds) = {}
          /\ DOMAIN event.remote \subseteq DOMAIN prefixes
    /\ InFlight({"versions"}) # {} => indexFile = Complete(index)

Stages == {"main", "assets", "data"}

\* C4: the assets index is requested only after the version index was
\* fetched and saved, the data index only after the assets index was fetched
\* and saved, and success is reported only with all three saved.
C4_StagesInOrder ==
    /\ InFlight({"assets"}) # {} => "main" \in flow.v.written
    /\ InFlight({"data"}) # {} => {"main", "assets"} \subseteq flow.v.written
    /\ emitted = SignalOf("v", TRUE) => flow.v.written = Stages

\* C9: a failed request, a file that cannot be opened or a write that fails
\* ends the per-version flow in failure with no request of a later stage;
\* success is never reported after the write of a stage has failed.
C9_StageFailureAbortsFlow ==
    /\ event.op = "onVersionReplyError" =>
          emitted = SignalOf("v", FALSE) /\ InFlight(VersionKinds) = {}
    /\ (event.op \in {"onVersionIndexFinished", "onAssetsIndexFinished",
                      "onDataIndexFinished"} /\ event.open = "openFailed") =>
          emitted = SignalOf("v", FALSE) /\ InFlight(VersionKinds) = {}
    /\ flow.v.failed # {} =>
          emitted # SignalOf("v", TRUE) /\ InFlight(VersionKinds) = {}

\* C10: a process that dies while it saves the prefixes index leaves on disk
\* the file as it was or the complete merged index.
C10_IndexFileSavedAtomically ==
    event.op = "crashInPersist" =>
        indexFile = event.before \/ indexFile = Complete(event.merged)

\* C11: a per-version flow that has ended in failure has not left on disk a
\* version index it wrote itself without the assets index and the data index
\* it fetched for it.
C11_FailedFetchLeavesStoreConsistent ==
    (emitted = SignalOf("v", FALSE) /\ "main" \in flow.v.written) =>
        {"assets", "data"} \subseteq flow.v.written

\* C12: over any sequence of discovery flows the catalog loses no prefix and
\* no prefix loses a version, every version list stays in descending order,
\* and a flow that starts, also after a failed one, starts with an empty queue.
C12_CatalogOnlyGrowsAcrossFlows ==
    /\ [][/\ DOMAIN prefixes \subseteq DOMAIN prefixes'
          /\ \A id \in DOMAIN prefixes :
                Range(prefixes[id].versions) \subseteq Range(prefixes'[id].versions)]_vars
    /\ [](\A id \in DOMAIN prefixes : IsSortedDesc(prefixes[id].versions))
    /\ []((event.op = "fetchPrefixes" /\ event.accepted) =>
             prefixFetchQueue = <<>> /\ flow.p.enqueued = <<>>)

\* a second flow starts after the first one has merged prefix "a" and failed
\* to save the index: the prefix is still in the catalog and the queue empty
C12_Witness ==
    /\ event.op = "fetchPrefixes" /\ event.accepted
    /\ started.p = 2 /\ signalled.p = 1
    /\ indexFile = NoFile
    /\ "a" \in DOMAIN prefixes
    /\ prefixFetchQueue = <<>>

\* <prefix>/<v>/<v>.json is complete on disk and its "id" is v
HasOwnDescriptor(prefixId, v) ==
    LET file == versionFiles[<<prefixId, v>>].main
    IN file.kind = "complete" /\ file.bytes.id = v

\* C13: after construction the version list of every prefix of the catalog
\* holds exactly the version directories whose descriptor is present,
\* readable and names the directory, in descending order; a directory whose
\* descriptor names another id is left out and the ones after it are listed.
C13_LocalVersionsHaveOwnDescriptor ==
    event.op = "constructor" =>
        /\ DOMAIN prefixes = DOMAIN index \ {""}
        /\ \A id \in DOMAIN prefixes :
              prefixes[id].versions =
                  DescOf({v \in VersionIds : HasOwnDescriptor(id, v)})

\* the first directory holds the descriptor of another version and the one
\* scanned after it its own: only the second is listed
C13_Witness ==
    /\ event.op = "constructor"
    /\ "a" \in DOMAIN prefixes
    /\ versionFiles[<<"a", 1>>].main.kind = "complete"
    /\ versionFiles[<<"a", 1>>].main.bytes.id \notin {1, EmptyId}
    /\ HasOwnDescriptor("a", 2)
    /\ prefixes["a"].versions = <<2>>

\* C14: findLocalVersions run again for a prefix over the same store leaves
\* the version list of the prefix as the first run left it.
C14_LocalDiscoveryIdempotent ==
    [][event'.op = "findLocalVersions" =>
          prefixes'[event'.prefixId].versions =
              prefixes[event'.prefixId].versions]_vars

\* the descriptors fillVersionFiles has read for FillTarget
FilledData == versionFiles[FillTarget].data.bytes
FilledVersion == versionFiles[FillTarget].main.bytes
FilledAssets == assetsFiles[VersionIndex(FilledVersion).assetsIndex].bytes

C16_FailedAssemblyAddsNothing ==
    (event.op = "fillVersionFiles" /\ ~event.result) =>
        /\ event.files = event.before
        /\ event.error =
              IF versionFiles[FillTarget].data.kind # "complete"
              THEN "Failed to load data index!"
              ELSE IF \/ versionFiles[FillTarget].main.kind # "complete"
                      \/ FilledVersion.id = EmptyId
              THEN "Failed to load version index!"
              ELSE "Failed to load assets index!"

\* C17: a library of the version index gives a FileInfo exactly when the
\* platform allows it and its storage path is a key of libs in the data
\* index; an allowed library whose path is missing is logged and skipped, and
\* the assembly succeeds whenever the three descriptors load.
C17_LibraryEmittedIffAllowedAndKnown ==
    (/\ event.op = "fillVersionFiles"
     /\ versionFiles[FillTarget].data.kind = "complete"
     /\ versionFiles[FillTarget].main.kind = "complete"
     /\ FilledVersion.id # EmptyId
     /\ AssetsFileOf(VersionIndex(FilledVersion).assetsIndex).kind = "complete") =>
        /\ event.result
        /\ \A p \in Range(LibPaths) :
              /\ Len(SelectSeq(event.files,
                       LAMBDA f : f.path = "data/libraries/" \o p)) =
                   Len(SelectSeq(FilledVersion.libraries,
                         LAMBDA l : l.path = p /\ l.allowed
                                               /\ p \in DOMAIN FilledData.libs))
              /\ Len(SelectSeq(event.warnings, LAMBDA w : w = p)) =
                   Len(SelectSeq(FilledVersion.libraries,
                         LAMBDA l : l.path = p /\ l.allowed
                                               /\ p \notin DOMAIN FilledData.libs))
        /\ Len(event.files) = Len(event.before) + 1
                                + Cardinality(DOMAIN FilledData.files)
                                + Len(SelectSeq(FilledVersion.libraries,
                                        LAMBDA l : l.allowed
                                                     /\ l.path \in DOMAIN FilledData.libs))
                                + Cardinality(DOMAIN FilledAssets.objects)

\* of two allowed libraries the data index knows the second only: the first
\* is logged as missing, the second is in the list, and the call succeeds
C17_Witness ==
    /\ event.op = "fillVersionFiles"
    /\ event.result
    /\ FilledVersion.libraries = <<[allowed |-> TRUE, path |-> "p1"],
                                   [allowed |-> TRUE, path |-> "p2"]>>
    /\ DOMAIN FilledData.libs = {"p2"}
    /\ event.warnings = <<"p1">>
    /\ Len(SelectSeq(event.files, LAMBDA f : f.path = "data/libraries/p2")) = 1
    /\ Len(SelectSeq(event.files, LAMBDA f : f.path = "data/libraries/p1")) = 0

\* C18: a payload that is not the JSON it should be ends the flow in failure
\* with the queue empty and no request outstanding: a malformed prefixes
\* index, a version list without versions and without latest, a version
\* index without a reference to an assets index.
C18_ParseErrorEndsFlow ==
    /\ (event.op = "onPrefixesIndexFinished" /\ event.json = "malformed") =>
          /\ emitted = SignalOf("p", FALSE)
          /\ prefixFetchQueue = <<>>
          /\ InFlight(PrefixKinds) = {}
    /\ (/\ event.op = "onPrefixVersionsFinished"
        /\ event.remote = <<>>
        /\ event.latest = EmptyId) =>
          /\ emitted = SignalOf("p", FALSE)
          /\ prefixFetchQueue = <<>>
          /\ InFlight(PrefixKinds) = {}
    /\ (/\ event.op = "onVersionIndexFinished"
        /\ VersionIndex(event.data).assetsIndex = "") =>
          /\ emitted = SignalOf("v", FALSE)
          /\ InFlight(VersionKinds) = {}

\* C19: the constructor leaves as the latest version of a prefix the second
\* element of its descending version list when the list has more than one
\* element and no latest version otherwise; the merge of a version list
\* leaves the latest of the remote list, whatever the merged list is.
C19_LatestIsSecondLocalOrRemote ==
    /\ event.op = "constructor" =>
          \A id \in DOMAIN prefixes :
              prefixes[id].latestVersionId =
                  IF Len(prefixes[id].versions) > 1
                  THEN prefixes[id].versions[2]
                  ELSE EmptyId
    /\ event.op = "onPrefixVersionsFinished" =>
          prefixes[event.prefixId].latestVersionId = event.latest

\* two versions on disk: the latest one is the smaller of the two
C19_Witness ==
    /\ event.op = "constructor"
    /\ "a" \in DOMAIN prefixes
    /\ Len(prefixes["a"].versions) = 2
    /\ prefixes["a"].latestVersionId = prefixes["a"].versions[2]
    /\ prefixes["a"].versions[1] > prefixes["a"].versions[2]

\* C20: when a discovery flow has ended in success the version list of every
\* prefix of the catalog holds the versions that have their own descriptor
\* on disk, also for a prefix the flow has added to the catalog.
C20_LocalVersionsOfNewPrefixListed ==
    emitted = SignalOf("p", TRUE) =>
        \A id \in DOMAIN prefixes :
            {v \in VersionIds : HasOwnDescriptor(id, v)}
                \subseteq Range(prefixes[id].versions)

====
